---------------------------- MODULE Spec2Model ----------------------------
(***************************************************************************)
(* The threshold-gated RAG counselling engine (RAGTherapySystem and its    *)
(* collaborators TherapyProtocol, SearchEngine, ResponseGenerator and the  *)
(* self-learning write-back), as described by the repository's design      *)
(* documents under src/.                                                   *)
(*                                                                         *)
(* Similarities are kept in hundredths (0.7 is 70).  Flooring a similarity *)
(* to hundredths preserves every comparison against a threshold that is a  *)
(* multiple of 0.01.  A user input is represented by the set of listed     *)
(* keywords that occur in it (the code tests "keyword in user_input").     *)
(*                                                                         *)
(* chat(user_input) takes no session id: RAGTherapySystem keeps one        *)
(* chat_history and TherapyProtocol one TherapySession, whoever calls.     *)
(* Sessions are the callers (the session ids of the requests).             *)
(*                                                                         *)
(* Beside the engine the module holds the parts of the desktop shell that  *)
(* have a state of their own, each translated from its JavaScript source:  *)
(* the activity monitor, the recommended-task UI, the send handlers of the *)
(* chat-style panels and waitForBackend of the main process.  Each part    *)
(* has its own variable and its own specification; times are in            *)
(* milliseconds.                                                           *)
(***************************************************************************)
EXTENDS Naturals, Integers, Sequences, FiniteSets

VARIABLES
    arrived,          \* per session: number of turns that have arrived
    queue,            \* per session: arrived turns not yet started, in arrival order
    inflight,         \* per session: turns inside chat(), each at a suspension point
    therapy_session,  \* the TherapySession state of TherapyProtocol
    chat_history,     \* the bounded short-term history of RAGTherapySystem
    response,         \* per session: what the last finished turn returned to its caller
    retrieval_calls,  \* per session: retrieval calls (embedding + query) since the last turn began
    record_calls,     \* per session: self-learning writes triggered since the last turn began
    tasks,            \* background self-learning tasks created and not yet finished
    vector_db,        \* self-learned Q&A documents stored in the vector DB
    save_failures,    \* self-learning writes that failed (ignored by the system)
    halted,           \* an exception left chat() uncaught and stopped the system
    search,           \* one run of the iterative search, step by step
    probe,            \* input and result of one keyword-based guidance evaluation
    fanout,           \* one query-expansion iteration: the parallel searches and their merge
    calc,             \* inputs and results of the similarity and emotion-bonus formulas
    ranking,          \* the order of the chunks of one search, from retrieval to result
    monitor,          \* activity monitor: the state of setupActivityMonitor and its clock
    task_ui,          \* recommended-task UI: selectedTasks, customTasks, currentRecommendation
    panel,            \* per chat-style panel: send button, requests awaiting their response
    backend_wait      \* waitForBackend: loop counter, the attempt under way, return value

vars == <<arrived, queue, inflight, therapy_session, chat_history, response,
          retrieval_calls, record_calls, tasks, vector_db, save_failures,
          halted, search, probe, fanout, calc, ranking, monitor, task_ui, panel,
          backend_wait>>

\* the state of RAGTherapySystem and its background tasks
system == <<arrived, queue, inflight, therapy_session, chat_history, response,
            retrieval_calls, record_calls, tasks, vector_db, save_failures, halted>>

\* the state outside the turns of chat(): single searches, formulas, desktop shell
others == <<fanout, calc, ranking, monitor, task_ui, panel, backend_wait>>

---------------------------------------------------------------------------
(* Bounds of the model *)

\* turns that arrive in one behaviour of Spec (over all sessions)
MaxTurns == 3
\* turns of one session waiting to be started
MaxQueue == 2
\* turns that arrive in one behaviour of SpecHistory
MaxHistoryTurns == 12
\* chunks a model search returns (n_results = 5 is never reached by the model)
MaxChunks == 2
\* listed keywords occurring in one probed input
MaxKeywords == 3
\* turns that arrive in one behaviour of SpecLive
MaxLiveTurns == 3
\* expanded queries searched in parallel in one iteration
MaxBranches == 2
\* largest distance given to the similarity formula, in quarters
MaxDistance == 8
\* chunks in the result list of one ranked search
MaxRanked == 3
\* steps of the activity monitor's clock
MaxSteps == 30
\* recommended task cards shown
MaxRecommended == 4
\* confirmation dialogs open, and saves awaiting their response, at a time
MaxOpen == 1
\* messages sent from one panel
MaxSends == 3

Sessions == {"s1", "s2"}

---------------------------------------------------------------------------
(* Program constants *)

\* Threshold of the branch, in hundredths
THRESHOLD == 70
\* History entries kept
MAX_HISTORY == 10
\* The re-ranker runs when the best similarity is below 0.55
RERANK_THRESHOLD == 55
\* Multi-step search stops early at quality score >= 0.7 ...
QUALITY_THRESHOLD == 70
\* ... or at average similarity >= 0.6
AVG_SIMILARITY_THRESHOLD == 60
\* Largest emotion-keyword bonus (0.2)
MAX_EMOTION_BOOST == 20
\* Passes of the multi-step search (the documents name the parameter and
\* not its value)
max_iterations == 3
\* most tasks selected (recommended and custom together)
MAX_SELECTED_TASKS == 3
\* most custom tasks
MAX_CUSTOM_TASKS == 3
\* default number of health checks of waitForBackend
maxRetries == 30

---------------------------------------------------------------------------
(* Keyword tables.  The Korean keywords of the source are written in       *)
(* Revised Romanization, in the order of the source lists.                 *)

ExitKeywords == {"exit", "gomawo", "kkeut", "jongryo", "geuman", "annyeong"}

CrisisKeywords == {"jukgo sip", "jasal", "jahae", "kkeutnaego sip", "pogi", "jeolmang"}

SolutionKeywords == {"eotteoke", "bangbeop", "haegyeol", "gaeseon", "naaji", "byeonhwa"}

CriticalKeywords == {"jukgo sip", "jasal", "jahae", "kkeutnaego sip"}

HighKeywords == {"gyeondil su eops", "michigess", "hangye", "deo isang mot", "bulganeung"}

MediumKeywords == {"himdeul", "eoryeop", "goerop", "gotong", "seuteureseu"}

AdlerKeywords == {"adeulleo", "adler"}

CounselingKeywords == {"himdeureo", "sangdam", "jjajeung", "uul", "buran", "seuteureseu", "gomin",
                       "geokjeong", "seulpeu", "oero", "hwana", "dapdap",
                       "counseling", "therapy", "help", "depressed", "anxious"}

\* the keywords the protocol engine looks for
ProtocolKeywords == CrisisKeywords \cup SolutionKeywords \cup CriticalKeywords
                        \cup HighKeywords \cup MediumKeywords

Contains(user_input, keywords) == user_input \cap keywords # {}

---------------------------------------------------------------------------
(* TherapyProtocol: keyword-based decisions *)

SelectProtocolSolutionFirst(user_input) ==
    IF Contains(user_input, SolutionKeywords) THEN "sfbt"
    ELSE IF Contains(user_input, CrisisKeywords) THEN "eap"
    ELSE "integrated"

\* crisis keyword -> EAP (safety); solution keyword -> SFBT; default integrated
select_protocol(user_input) ==
    IF Contains(user_input, CrisisKeywords) THEN "eap"
    ELSE IF Contains(user_input, SolutionKeywords) THEN "sfbt"
    ELSE "integrated"

AssessSeverityWithoutHigh(user_input) ==
    IF Contains(user_input, CriticalKeywords) THEN "critical"
    ELSE IF Contains(user_input, MediumKeywords) THEN "medium"
    ELSE "low"

AssessSeverityLowestFirst(user_input) ==
    IF Contains(user_input, MediumKeywords) THEN "medium"
    ELSE IF Contains(user_input, HighKeywords) THEN "high"
    ELSE IF Contains(user_input, CriticalKeywords) THEN "critical"
    ELSE "low"

assess_severity(user_input) ==
    IF Contains(user_input, CriticalKeywords) THEN "critical"
    ELSE IF Contains(user_input, HighKeywords) THEN "high"
    ELSE IF Contains(user_input, MediumKeywords) THEN "medium"
    ELSE "low"

\* Critical/High severity: the protocol prompt carries the referral
\* numbers (1393, 1577-0199)
CrisisIntervention(severity) == severity \in {"critical", "high"}

ShouldAskSfbtQuestionFromOne(history) ==
    LET turn_count == Len(history)
    IN  IF turn_count <= 1 THEN "scaling"
        ELSE IF turn_count = 2 THEN "exception"
        ELSE IF turn_count = 3 THEN "coping"
        ELSE IF turn_count = 4 THEN "miracle"
        ELSE "relationship"

\* SFBT question type by conversation stage: the exchanges so far
\* (0: SCALING, 1: EXCEPTION, 2: COPING, 3: MIRACLE, 4 and more:
\* RELATIONSHIP)
should_ask_sfbt_question(history) ==
    LET turn_count == Len(history)
    IN  IF turn_count = 0 THEN "scaling"
        ELSE IF turn_count = 1 THEN "exception"
        ELSE IF turn_count = 2 THEN "coping"
        ELSE IF turn_count = 3 THEN "miracle"
        ELSE "relationship"

UpdateConversationCountStuck(conversation_count) == conversation_count

\* session-state update: one more conversation
UpdateConversationCount(conversation_count) == conversation_count + 1

\* 1. session-state update  2. protocol  3. severity  4. SFBT question
\* (6. prompt)
generate_protocol_guidance(session, user_input, history) ==
    LET severity == assess_severity(user_input)
        protocol == select_protocol(user_input)
    IN  [protocol_type  |-> protocol,
         severity_level |-> severity,
         sfbt_question_type |-> should_ask_sfbt_question(history),
         hotline_in_prompt |-> CrisisIntervention(severity),
         session_state  |-> [conversation_count |->
                                 UpdateConversationCount(session.conversation_count),
                             protocol_type      |-> protocol,
                             severity_level     |-> severity]]

\* the TherapySession after construction and after reset_session()
InitialSession ==
    [conversation_count |-> 0, protocol_type |-> "integrated", severity_level |-> "low"]

---------------------------------------------------------------------------
(* ResponseGenerator.classify_input *)

classify_input(user_input) ==
    IF Contains(user_input, AdlerKeywords) THEN "adler"
    ELSE IF Contains(user_input, CounselingKeywords) THEN "counseling"
    ELSE "general"

---------------------------------------------------------------------------
(* SearchEngine *)

\* L2 distances the vector DB may report, each a fraction <<p, q>> = p/q:
\* 0, 3/7, 9/11 and 69/50 (similarities 1.0, 0.7, 0.55 and 0.42..)
Distances == {<<0, 1>>, <<3, 7>>, <<9, 11>>, <<69, 50>>}

\* 1 / (1 + distance), in hundredths, floored
get_distance_to_similarity(distance) ==
    (100 * distance[2]) \div (distance[1] + distance[2])

\* share of the input's emotion keywords found in a chunk's text, in percent
MatchRatios == {0, 100}

CalculateEmotionBoostWide(match_ratio) == (match_ratio * 30) \div 100

\* bonus by match ratio, at most 0.2
calculate_emotion_boost(match_ratio) ==
    LET boost == (match_ratio * MAX_EMOTION_BOOST) \div 100
    IN  IF boost > MAX_EMOTION_BOOST THEN MAX_EMOTION_BOOST ELSE boost

\* A retrieved chunk is <<distance, match_ratio>>.
\* final similarity = base similarity + emotion bonus
FinalSimilarity(chunk) ==
    get_distance_to_similarity(chunk[1]) + calculate_emotion_boost(chunk[2])

\* chunks the vector DB may return to a turn: similarities 0.7 and
\* 0.42 + 0.2
Hits == {<<<<3, 7>>, 0>>, <<<<69, 50>>, 100>>}

\* what one search may return: up to MaxChunks chunks (possibly none)
SearchOutcomes == {hs \in SUBSET Hits : Cardinality(hs) <= MaxChunks}

TopSimilarityEmptyIsBest(chunks) ==
    IF chunks = {} THEN 100
    ELSE CHOOSE m \in chunks : \A x \in chunks : x <= m

\* highest similarity of the retrieved chunks, 0 when there are none
TopSimilarity(chunks) ==
    IF chunks = {} THEN 0
    ELSE CHOOSE m \in chunks : \A x \in chunks : x <= m

---------------------------------------------------------------------------
(* SearchEngine: the multi-step iterative search, step by step *)

\* base similarities of a set of chunks
BaseSimilarities(chunks) == {get_distance_to_similarity(c[1]) : c \in chunks}

RerankNeededInclusive(chunks) == TopSimilarity(BaseSimilarities(chunks)) <= RERANK_THRESHOLD

\* rerank_chunks runs only when the best similarity is < 0.55
RerankNeeded(chunks) == TopSimilarity(BaseSimilarities(chunks)) < RERANK_THRESHOLD

RECURSIVE SumSimilarity(_)
SumSimilarity(chunks) ==
    IF chunks = {} THEN 0
    ELSE LET c == CHOOSE x \in chunks : TRUE
         IN  get_distance_to_similarity(c[1]) + SumSimilarity(chunks \ {c})

\* average similarity of the chunks found so far (0 when there are none)
AvgSimilarity(chunks) ==
    IF chunks = {} THEN 0 ELSE SumSimilarity(chunks) \div Cardinality(chunks)

NeedsImprovementEither(quality_score, avg_similarity) ==
    quality_score < QUALITY_THRESHOLD \/ avg_similarity < AVG_SIMILARITY_THRESHOLD

\* the search goes on only while neither early-termination condition holds
NeedsImprovement(quality_score, avg_similarity) ==
    quality_score < QUALITY_THRESHOLD /\ avg_similarity < AVG_SIMILARITY_THRESHOLD

\* Quality evaluation (average similarity, diversity score).  The documents
\* give the inputs of the quality score and not its formula: the score is an
\* input of the model.
EvaluateSearchQuality(chunks, quality_score) ==
    [avg_similarity    |-> AvgSimilarity(chunks),
     quality_score     |-> quality_score,
     needs_improvement |-> NeedsImprovement(quality_score, AvgSimilarity(chunks))]

\* quality scores an evaluation may give
QualityScores == {50, 70}

\* chunks the vector DB may return to one pass: similarities 1.0 (with and
\* without emotion keywords), 0.55 and 0.42..
PassHits == {<<<<0, 1>>, 100>>, <<<<0, 1>>, 0>>, <<<<9, 11>>, 0>>, <<<<69, 50>>, 100>>}

PassOutcomes == {hs \in SUBSET PassHits : Cardinality(hs) <= MaxChunks}

\* a search run on its own: no turn is served meanwhile
SystemIdle ==
    UNCHANGED <<arrived, queue, inflight, therapy_session, chat_history, response,
                retrieval_calls, record_calls, tasks, vector_db, save_failures,
                halted, probe, others>>

NoSearch ==
    [pc |-> "idle", chunks |-> {}, passes |-> << >>, evaluations |-> << >>,
     iterations_used |-> 0, final_rerank_calls |-> 0, results |-> {}]

\* one pass of retrieve_chunks_async: embedding, vector DB query, distance to
\* similarity, conditional re-ranker; the chunks found are merged with the
\* earlier ones (duplicates removed)
RetrievePass(hits) ==
    /\ search.pc = "retrieve"
    /\ search' = [search EXCEPT
           !.pc = "evaluate",
           !.chunks = @ \cup hits,
           !.passes = Append(@, [hits |-> hits,
                                 rerank_calls |-> IF RerankNeeded(hits) THEN 1 ELSE 0]),
           !.iterations_used = @ + 1]
    /\ SystemIdle

\* quality evaluation of the chunks found so far; the loop ends when the
\* quality is good enough or max_iterations passes were made
EvaluateQuality(quality_score) ==
    /\ search.pc = "evaluate"
    /\ LET quality == EvaluateSearchQuality(search.chunks, quality_score)
       IN  search' = [search EXCEPT
               !.evaluations = Append(@, quality),
               !.pc = IF quality.needs_improvement /\ search.iterations_used < max_iterations
                      THEN "expand" ELSE "finish"]
    /\ SystemIdle

\* query expansion (keyword based or by the LLM), then the next pass
ExpandQuery ==
    /\ search.pc = "expand"
    /\ search' = [search EXCEPT !.pc = "retrieve"]
    /\ SystemIdle

\* final re-ranker (same condition) and emotion-keyword weighting
FinishSearch ==
    /\ search.pc = "finish"
    /\ search' = [search EXCEPT
           !.pc = "done",
           !.final_rerank_calls = IF RerankNeeded(search.chunks) THEN 1 ELSE 0,
           !.results = {FinalSimilarity(c) : c \in search.chunks}]
    /\ SystemIdle

---------------------------------------------------------------------------
(* RAGTherapySystem *)

UseLlmOnlyStrict(best_similarity) == best_similarity > THRESHOLD

\* Threshold branch: >= 0.7 -> LLM only; < 0.7 -> RAG + self-learning
UseLlmOnly(best_similarity) == best_similarity >= THRESHOLD

TriggerSelfLearningAlways(best_similarity) == TRUE

\* Self-learning is triggered when the similarity is < 0.7
TriggerSelfLearning(best_similarity) == best_similarity < THRESHOLD

\* exit-keyword check at the start of chat()
IsExit(user_input) == Contains(user_input, ExitKeywords)

AppendHistoryDropNewest(history, entry) ==
    IF Len(history) >= MAX_HISTORY THEN history ELSE Append(history, entry)

\* chat_history.append(..); if len > 10: chat_history = chat_history[-10:]
AppendHistory(history, entry) ==
    LET h == Append(history, entry)
    IN  IF Len(h) > MAX_HISTORY
        THEN SubSeq(h, Len(h) - MAX_HISTORY + 1, Len(h))
        ELSE h

ResetHistoryKeep(history) == history

\* the history after the exit keyword was seen
ResetHistory(history) == << >>

\* What the generation provider may do with a request: produce text that
\* follows the instructions of the prompt, produce text that does not, or
\* fail.
GenerationOutcomes == {"follows_prompt", "ignores_prompt", "api_error"}

\* The answer of a turn: the "no related material" message when the RAG
\* branch has no chunk, else the provider's text as it is, or the default
\* message when the API call raised.
GenerateAnswer(guidance, mode, outcome) ==
    IF mode # "llm_only" /\ guidance.chunks = {}
    THEN [source |-> "no_material_message", hotline |-> FALSE]
    ELSE IF outcome = "api_error"
    THEN [source |-> "default_message", hotline |-> FALSE]
    ELSE [source |-> "llm",
          hotline |-> (outcome = "follows_prompt" /\ guidance.hotline_in_prompt)]

NoAnswer == [source |-> "none", hotline |-> FALSE]

NoResponse ==
    [kind |-> "none", turn |-> 0, mode |-> "none", similarity_score |-> 0,
     retrieved |-> {}, answer |-> NoAnswer, severity_level |-> "low", protocol_type |-> "integrated"]

ClosingResponse(id) ==
    [kind |-> "closing", turn |-> id, mode |-> "none", similarity_score |-> 0,
     retrieved |-> {}, answer |-> NoAnswer, severity_level |-> "low", protocol_type |-> "integrated"]

\* the exception of a failed embedding call, as the caller gets it
RaisedError(id) ==
    [kind |-> "error", turn |-> id, mode |-> "none", similarity_score |-> 0,
     retrieved |-> {}, answer |-> NoAnswer, severity_level |-> "low", protocol_type |-> "integrated"]

SessionFreeAlways(s) == TRUE

\* single writer per session: a session starts its next turn only when no
\* turn of that session is inside chat()
SessionFree(s) == inflight[s] = {}

CallNeverTimesOut(pc) == FALSE

\* every external provider call (embedding, vector query, generation)
\* carries a bounded timeout
CallTimesOut(pc) == pc \in {"search", "generate"}

\* chat() has no session id: every caller's turns work with the one history
SessionHistory(s) == chat_history

\* ... and with the one TherapySession
SessionState(s) == therapy_session

TotalArrived == arrived["s1"] + arrived["s2"]

\* turns inside chat(), over all callers
TotalInflight == Cardinality(inflight["s1"]) + Cardinality(inflight["s2"])

---------------------------------------------------------------------------
(* The inputs of the model *)

\* user inputs of Spec, each the set of listed keywords it contains:
\* a crisis sentence, a stressed one and a thank-you
Utterances == { {"jukgo sip"}, {"seuteureseu"}, {"gomawo"} }

\* user inputs of SpecHistory and SpecLive
HistoryUtterances == { {"seuteureseu"}, {"gomawo"} }

\* inputs of SpecKeywords: up to MaxKeywords of the protocol keywords
ProbeInputs == {i \in SUBSET ProtocolKeywords : Cardinality(i) <= MaxKeywords}

NoProbe == [input |-> {}, done |-> TRUE, protocol_type |-> "none", severity_level |-> "none"]

---------------------------------------------------------------------------
(* SearchEngine: one query-expansion iteration and its parallel searches *)

\* ids of the chunks the vector DB may return to the searches
ChunkIds == {"c1", "c2"}

\* the expanded queries of one iteration
ExpandedQueries == 1..MaxBranches

NoFanout ==
    [pc |-> "idle", iteration |-> 0, queries |-> {}, running |-> {},
     found |-> [q \in ExpandedQueries |-> {}], timed_out |-> FALSE,
     chunks |-> {}, merge_count |-> 0,
     merge |-> [complete |-> {}, pending |-> {}, timed_out |-> FALSE]]

\* an iteration on its own: nothing else moves meanwhile
FanoutOnly ==
    UNCHANGED <<system, search, probe, calc, ranking, monitor, task_ui, panel,
                backend_wait>>

MergeReadyAnyBranch(running, timed_out) == TRUE

\* results are merged only after all branches complete or the per-iteration
\* timeout elapses
MergeReady(running, timed_out) == running = {} \/ timed_out

\* merged candidates, duplicates (same chunk id) removed
MergeCandidates(chunks, found, complete) ==
    chunks \cup UNION {found[q] : q \in complete}

\* query expansion, then the searches of the expanded queries start together
StartExpandedSearches(queries) ==
    /\ fanout.pc = "expand"
    /\ queries # {}
    /\ fanout' = [fanout EXCEPT
           !.pc = "searching",
           !.iteration = @ + 1,
           !.queries = queries,
           !.running = queries,
           !.found = [q \in ExpandedQueries |-> {}],
           !.timed_out = FALSE]
    /\ FanoutOnly

\* the search of one expanded query returns its chunks
ExpandedSearchReturns(q, ids) ==
    /\ fanout.pc = "searching"
    /\ q \in fanout.running
    /\ fanout' = [fanout EXCEPT !.running = @ \ {q}, !.found[q] = ids]
    /\ FanoutOnly

\* the per-iteration timeout elapses while searches are still running
IterationTimeout ==
    /\ fanout.pc = "searching"
    /\ fanout.running # {}
    /\ ~fanout.timed_out
    /\ fanout' = [fanout EXCEPT !.timed_out = TRUE]
    /\ FanoutOnly

\* merge, duplicate removal and quality re-evaluation; the searches still
\* running at a timeout are left out.  The loop goes on while the quality
\* needs improvement and max_iterations is not reached.
MergeAndReevaluate(needs_improvement) ==
    /\ fanout.pc = "searching"
    /\ MergeReady(fanout.running, fanout.timed_out)
    /\ LET complete == fanout.queries \ fanout.running
       IN  fanout' = [fanout EXCEPT
               !.pc = IF needs_improvement /\ fanout.iteration < max_iterations
                      THEN "expand" ELSE "done",
               !.chunks = MergeCandidates(@, fanout.found, complete),
               !.merge_count = @ + 1,
               !.merge = [complete |-> complete, pending |-> fanout.running,
                          timed_out |-> fanout.timed_out]]
    /\ FanoutOnly

---------------------------------------------------------------------------
(* SearchEngine: the two scoring formulas applied to given inputs *)

\* L2 distances given to the conversion: the multiples of 1/4 up to
\* MaxDistance / 4, and the distances of the searches above
DistanceGrid == Distances \cup {<<p, 4>> : p \in 0..MaxDistance}

\* match ratios given to the bonus formula: 0.00, 0.01, ... 1.00
MatchPercents == 0..100

\* comparison of two fractions <<p, q>> with q > 0
FractionLess(a, b) == a[1] * b[2] < b[1] * a[2]

SimilarityRatioLinear(distance) == <<distance[2] - distance[1], distance[2]>>

\* 1 / (1 + distance) as an exact fraction: 1 / (1 + p/q) = q / (p + q).
\* get_distance_to_similarity above is this value floored to hundredths.
SimilarityRatio(distance) == <<distance[2], distance[1] + distance[2]>>

NoCalc ==
    [pc |-> "idle", d1 |-> <<0, 1>>, d2 |-> <<0, 1>>, match_ratio |-> 0,
     s1 |-> <<1, 1>>, s2 |-> <<1, 1>>, boost |-> 0]

\* both formulas applied to the inputs
ApplyFormulas ==
    /\ calc.pc = "input"
    /\ calc' = [calc EXCEPT
           !.pc = "done",
           !.s1 = SimilarityRatio(calc.d1),
           !.s2 = SimilarityRatio(calc.d2),
           !.boost = calculate_emotion_boost(calc.match_ratio)]
    /\ UNCHANGED <<system, search, probe, fanout, ranking, monitor, task_ui, panel,
                   backend_wait>>

---------------------------------------------------------------------------
(* SearchEngine: the order of the chunks of one search *)

\* chunks the vector DB may return: similarities 0.7 + 0.2, 0.55, 0.5,
\* 0.42.. + 0.2 and 0.42..
RankingHits ==
    {<<<<3, 7>>, 100>>, <<<<9, 11>>, 0>>, <<<<1, 1>>, 0>>, <<<<69, 50>>, 100>>,
     <<<<69, 50>>, 0>>}

\* the chunks of a list
Range(list) == {list[i] : i \in 1..Len(list)}

\* the vector DB returns up to MaxRanked distinct chunks, nearest first
QueryResults ==
    {list \in UNION {[1..n -> RankingHits] : n \in 0..MaxRanked} :
        \A i, j \in 1..Len(list) :
            i < j => /\ list[i] # list[j]
                     /\ ~FractionLess(list[j][1], list[i][1])}

\* the orders the LLM may return for n chunks
Permutations(n) ==
    {order \in [1..n -> 1..n] : \A i, j \in 1..n : i # j => order[i] # order[j]}

\* chunks re-ordered by the numbers the LLM returned
rerank_chunks(chunks, order) == [i \in 1..Len(chunks) |-> chunks[order[i]]]

RECURSIVE InsertByBoosted(_, _)
\* chunk put behind every chunk of the sorted list that ranks at least as high
InsertByBoosted(sorted, chunk) ==
    IF sorted = << >> THEN <<chunk>>
    ELSE IF FinalSimilarity(sorted[Len(sorted)]) >= FinalSimilarity(chunk)
         THEN Append(sorted, chunk)
         ELSE Append(InsertByBoosted(SubSeq(sorted, 1, Len(sorted) - 1), chunk),
                     sorted[Len(sorted)])

KeepOrder(chunks) == chunks

RECURSIVE SortByBoosted(_)
\* re-sort by boosted similarity, highest first (stable)
SortByBoosted(chunks) ==
    IF chunks = << >> THEN << >>
    ELSE InsertByBoosted(SortByBoosted(SubSeq(chunks, 1, Len(chunks) - 1)),
                         chunks[Len(chunks)])

NoRanking == [pc |-> "idle", chunks |-> << >>, rerank_calls |-> 0, results |-> << >>]

RankingOnly ==
    UNCHANGED <<system, search, probe, fanout, calc, monitor, task_ui, panel,
                backend_wait>>

\* retrieve_chunks_async: the vector DB query
QueryVectorDb(list) ==
    /\ ranking.pc = "retrieve"
    /\ ranking' = [ranking EXCEPT !.pc = "rerank", !.chunks = list]
    /\ RankingOnly

\* conditional re-ranker: the LLM orders the chunks when the best similarity
\* is < 0.55, otherwise the order stays
Rerank(order) ==
    /\ ranking.pc = "rerank"
    /\ IF RerankNeeded(Range(ranking.chunks))
       THEN /\ order \in Permutations(Len(ranking.chunks))
            /\ ranking' = [ranking EXCEPT
                   !.pc = "boost",
                   !.chunks = rerank_chunks(@, order),
                   !.rerank_calls = @ + 1]
       ELSE /\ order = [i \in 1..Len(ranking.chunks) |-> i]
            /\ ranking' = [ranking EXCEPT !.pc = "boost"]
    /\ RankingOnly

\* emotion keyword weighting: final similarity = base similarity + bonus,
\* results re-sorted by it
ApplyEmotionBoost ==
    /\ ranking.pc = "boost"
    /\ ranking' = [ranking EXCEPT !.pc = "done", !.results = SortByBoosted(ranking.chunks)]
    /\ RankingOnly

---------------------------------------------------------------------------
(* Activity monitor (renderer/activity-monitor/activityMonitor.js) *)

\* thresholds and check interval per mode, in milliseconds
CONFIG ==
    [dev  |-> [idleThresholdMs |-> 3 * 1000,
               longActiveThresholdMs |-> 10 * 1000,
               checkIntervalMs |-> 1000],
     prod |-> [idleThresholdMs |-> 5 * 60 * 1000,
               longActiveThresholdMs |-> 50 * 60 * 1000,
               checkIntervalMs |-> 2000]]

\* the mode the monitor is set up with
Modes == {"dev"}

\* the clock advances by half a check interval: inputs fall on the checks'
\* instants and between them
TimeStep(mode) == CONFIG[mode].checkIntervalMs \div 2

\* setupActivityMonitor(options) at time 0.  Besides the variables of the
\* closure the record keeps the clock (now), the instant of the next
\* setInterval callback, and what the callbacks and the input events saw:
\*   onIdle_calls        onIdle calls since the last input
\*   onLongActive_calls  onLongActive calls in the current activity session
\*   session_began       the instant of setup, or of the first input after
\*                       the last onIdle call
\*   gaps_short          every gap between inputs of the current session was
\*                       shorter than the idle threshold
\*   period_reached      the no-input period ended by the last input was at
\*                       least the idle threshold long
\*   period_idle_calls   onIdle calls during that period
setupActivityMonitor(mode) ==
    [mode |-> mode, now |-> 0,
     lastInputAt |-> 0, sessionStartAt |-> 0, isIdle |-> FALSE,
     hasNotifiedLongActive |-> FALSE, checkTimer |-> "set",
     nextCheckAt |-> CONFIG[mode].checkIntervalMs,
     onIdle_calls |-> 0, onLongActive_calls |-> 0, session_began |-> 0,
     gaps_short |-> TRUE, period_reached |-> FALSE, period_idle_calls |-> 0]

NoMonitor == [setupActivityMonitor("dev") EXCEPT !.checkTimer = "null"]

MonitorOnly ==
    UNCHANGED <<system, search, probe, fanout, calc, ranking, task_ui, panel,
                backend_wait>>

HandleUserInputRestartsSession(m) ==
    [m EXCEPT !.lastInputAt = m.now,
              !.isIdle = FALSE,
              !.sessionStartAt = m.now,
              !.hasNotifiedLongActive = FALSE]

\* handleUserInput: an input event (mousemove, mousedown, wheel, keydown)
handleUserInput(m) ==
    IF m.isIdle
    THEN [m EXCEPT !.lastInputAt = m.now,
                   !.isIdle = FALSE,
                   !.sessionStartAt = m.now,
                   !.hasNotifiedLongActive = FALSE]
    ELSE [m EXCEPT !.lastInputAt = m.now]

CheckActivityWithoutFlag(m) ==
    LET config == CONFIG[m.mode]
        timeSinceLastInput == m.now - m.lastInputAt
        currentSessionDuration == m.now - m.sessionStartAt
    IN  IF ~m.isIdle /\ timeSinceLastInput >= config.idleThresholdMs
        THEN [m EXCEPT !.isIdle = TRUE,
                       !.onIdle_calls = @ + 1,
                       !.sessionStartAt = m.now,
                       !.hasNotifiedLongActive = FALSE]
        ELSE IF ~m.isIdle /\ currentSessionDuration >= config.longActiveThresholdMs
             THEN [m EXCEPT !.hasNotifiedLongActive = TRUE,
                            !.onLongActive_calls = @ + 1]
             ELSE m

\* checkActivity: the periodic check
checkActivity(m) ==
    LET config == CONFIG[m.mode]
        timeSinceLastInput == m.now - m.lastInputAt
        currentSessionDuration == m.now - m.sessionStartAt
    IN  IF ~m.isIdle /\ timeSinceLastInput >= config.idleThresholdMs
        THEN [m EXCEPT !.isIdle = TRUE,
                       !.onIdle_calls = @ + 1,
                       !.sessionStartAt = m.now,
                       !.hasNotifiedLongActive = FALSE]
        ELSE IF /\ ~m.isIdle /\ ~m.hasNotifiedLongActive
                /\ currentSessionDuration >= config.longActiveThresholdMs
             THEN [m EXCEPT !.hasNotifiedLongActive = TRUE,
                            !.onLongActive_calls = @ + 1]
             ELSE m

\* time passes; a due check runs before the clock moves on
Tick ==
    /\ monitor.checkTimer = "set"
    /\ monitor.now < monitor.nextCheckAt
    /\ monitor.now < MaxSteps * TimeStep(monitor.mode)
    /\ monitor' = [monitor EXCEPT !.now = @ + TimeStep(monitor.mode)]
    /\ MonitorOnly

\* the window receives an input event
UserInput ==
    /\ monitor.checkTimer = "set"
    /\ LET gap == monitor.now - monitor.lastInputAt
           long == gap >= CONFIG[monitor.mode].idleThresholdMs
           resumed == monitor.onIdle_calls > 0
       IN  monitor' = [handleUserInput(monitor) EXCEPT
               !.period_reached = long,
               !.period_idle_calls = monitor.onIdle_calls,
               !.onIdle_calls = 0,
               !.session_began = IF resumed THEN monitor.now ELSE @,
               !.gaps_short = IF resumed THEN TRUE ELSE @ /\ ~long,
               !.onLongActive_calls = IF resumed THEN 0 ELSE @]
    /\ MonitorOnly

\* the setInterval timer fires
CheckTimerFires ==
    /\ monitor.checkTimer = "set"
    /\ monitor.now = monitor.nextCheckAt
    /\ monitor' = [checkActivity(monitor) EXCEPT
           !.nextCheckAt = @ + CONFIG[monitor.mode].checkIntervalMs]
    /\ MonitorOnly

\* cleanup(): listeners removed, timer cleared
cleanup ==
    /\ monitor.checkTimer = "set"
    /\ monitor' = [monitor EXCEPT !.checkTimer = "null"]
    /\ MonitorOnly

---------------------------------------------------------------------------
(* Recommended-task UI (taskUI.js) *)

\* indexes of the recommended task cards
RecommendedTasks == 0..(MaxRecommended - 1)

\* what the textarea of the custom-task modal may hold (trimmed)
TaskTexts == {"", "write report", "call client"}

\* module state after loading; rendered: a recommendation container with its
\* cards and buttons is in the document; dialogs: task counts of the open
\* confirmation dialogs; saves: task counts of the saveSelectedTasks calls
\* awaiting their response; saved_count: what the last successful save stored
NoTaskUi ==
    [selectedTasks |-> {}, customTasks |-> << >>, currentRecommendation |-> FALSE,
     rendered |-> FALSE, dialogs |-> << >>, saves |-> << >>, saved_count |-> 0]

TaskUiOnly ==
    UNCHANGED <<system, search, probe, fanout, calc, ranking, monitor, panel,
                backend_wait>>

\* the list without its i-th element
Remove(list, i) == [j \in 1..(Len(list) - 1) |-> IF j < i THEN list[j] ELSE list[j + 1]]

resetTaskState(ui) ==
    [ui EXCEPT !.selectedTasks = {}, !.customTasks = << >>,
               !.currentRecommendation = FALSE]

ToggleTaskSelectionUnlimited(ui, index) ==
    IF index \in ui.selectedTasks
    THEN [ui EXCEPT !.selectedTasks = @ \ {index}]
    ELSE [ui EXCEPT !.selectedTasks = @ \cup {index}]

\* toggleTaskSelection: a click on a task card
toggleTaskSelection(ui, index) ==
    IF index \in ui.selectedTasks
    THEN [ui EXCEPT !.selectedTasks = @ \ {index}]
    ELSE IF Cardinality(ui.selectedTasks) + Len(ui.customTasks) >= MAX_SELECTED_TASKS
         THEN ui
         ELSE [ui EXCEPT !.selectedTasks = @ \cup {index}]

\* saveTasks up to its await: at most 3 tasks go to saveSelectedTasks
saveTasks(ui, count) ==
    [ui EXCEPT !.saves = Append(@, IF count > 3 THEN 3 ELSE count)]

\* addTaskRecommendations: a new recommendation is shown
addTaskRecommendations ==
    /\ task_ui' = [resetTaskState(task_ui) EXCEPT
           !.currentRecommendation = TRUE, !.rendered = TRUE]
    /\ TaskUiOnly

\* a click on a task card
CardClick(index) ==
    /\ task_ui.rendered
    /\ task_ui' = toggleTaskSelection(task_ui, index)
    /\ TaskUiOnly

\* showCustomTaskInput, click handler of the modal's save button
CustomTaskSave(text) ==
    /\ task_ui' =
         IF text = "" THEN task_ui
         ELSE IF ~task_ui.currentRecommendation
              THEN IF Len(task_ui.saves) < MaxOpen THEN saveTasks(task_ui, 1) ELSE task_ui
         ELSE IF Len(task_ui.customTasks) >= MAX_CUSTOM_TASKS THEN task_ui
         ELSE IF Cardinality(task_ui.selectedTasks) + Len(task_ui.customTasks)
                     >= MAX_SELECTED_TASKS
              THEN task_ui
         ELSE [task_ui EXCEPT !.customTasks = Append(@, text)]
    /\ TaskUiOnly

\* handleSaveSelectedTasks: a click on the "selection done" button opens a
\* confirmation dialog holding the tasks chosen at that moment
handleSaveSelectedTasks ==
    /\ task_ui.rendered
    /\ Len(task_ui.dialogs) < MaxOpen
    /\ LET count == Cardinality(task_ui.selectedTasks) + Len(task_ui.customTasks)
       IN  task_ui' =
             IF ~task_ui.currentRecommendation \/ count = 0 THEN task_ui
             ELSE [task_ui EXCEPT !.dialogs = Append(@, count)]
    /\ TaskUiOnly

\* the dialog's confirm button: saveTasks with the dialog's tasks
ConfirmClick(i) ==
    /\ i \in 1..Len(task_ui.dialogs)
    /\ Len(task_ui.saves) < MaxOpen
    /\ task_ui' = saveTasks([task_ui EXCEPT !.dialogs = Remove(@, i)], task_ui.dialogs[i])
    /\ TaskUiOnly

\* the dialog's cancel button
CancelClick(i) ==
    /\ i \in 1..Len(task_ui.dialogs)
    /\ task_ui' = resetTaskState([task_ui EXCEPT !.dialogs = Remove(@, i)])
    /\ TaskUiOnly

\* saveTasks after its await: the state is reset when the save succeeded
SaveResponse(i, success) ==
    /\ i \in 1..Len(task_ui.saves)
    /\ task_ui' =
         IF success
         THEN resetTaskState([task_ui EXCEPT !.saves = Remove(@, i),
                                             !.saved_count = task_ui.saves[i]])
         ELSE [task_ui EXCEPT !.saves = Remove(@, i)]
    /\ TaskUiOnly

---------------------------------------------------------------------------
(* Chat-style panels: send handlers *)

\* chat: the chat panel whose handler is part_002's handleSendMessage;
\* chatPanel: renderer/chat/chatPanel.js; brainstorming: the popup of
\* handleBsSubmit
Panels == {"chat", "chatPanel", "brainstorming"}

\* trimmed content of the input box
MessageTexts == {"", "hello"}

\* disabled: the send button's disabled flag; awaiting: requests sent and
\* not yet answered; sent: user messages added to the panel
NoPanel == [p \in Panels |-> [disabled |-> FALSE, awaiting |-> 0, sent |-> 0]]

PanelOnly ==
    UNCHANGED <<system, search, probe, fanout, calc, ranking, monitor, task_ui,
                backend_wait>>

\* the handler up to its await, common to the three panels
StartSend(button) ==
    [button EXCEPT !.disabled = TRUE, !.awaiting = @ + 1, !.sent = @ + 1]

\* handleSendMessage of the chat panel (returns while the button is disabled)
handleSendMessage(button, text) ==
    IF text = "" THEN button
    ELSE IF button.disabled THEN button
    ELSE StartSend(button)

\* handleSendMessage of renderer/chat/chatPanel.js
chatPanelHandleSendMessage(button, text) ==
    IF text = "" THEN button
    ELSE StartSend(button)

\* handleBsSubmit of the brainstorming popup
handleBsSubmit(button, text) ==
    IF text = "" THEN button
    ELSE IF button.disabled THEN button
    ELSE StartSend(button)

SendHandler(p, button, text) ==
    IF p = "chat" THEN handleSendMessage(button, text)
    ELSE IF p = "chatPanel" THEN chatPanelHandleSendMessage(button, text)
    ELSE handleBsSubmit(button, text)

\* a click on the send button; a disabled button dispatches no click
ClickSend(p, text) ==
    /\ ~panel[p].disabled
    /\ panel[p].sent < MaxSends
    /\ panel' = [panel EXCEPT ![p] = SendHandler(p, @, text)]
    /\ PanelOnly

\* Enter (without Shift) in the input box calls the handler directly
PressEnter(p, text) ==
    /\ panel[p].sent < MaxSends
    /\ panel' = [panel EXCEPT ![p] = SendHandler(p, @, text)]
    /\ PanelOnly

\* the response of one request arrives (or its call fails): the rest of the
\* handler runs, its finally block enables the button
ResponseArrives(p) ==
    /\ panel[p].awaiting > 0
    /\ panel' = [panel EXCEPT ![p].awaiting = @ - 1, ![p].disabled = FALSE]
    /\ PanelOnly

---------------------------------------------------------------------------
(* waitForBackend (main process) *)

\* pc: loop (at the for loop's test), request (awaiting the promise of the
\* http.get), delay (awaiting the 1000 ms pause), returned; i: the loop
\* counter; attempts: http.get calls made; timeout_emitted: the request's
\* 'timeout' event was emitted; result: the value returned
NoWait ==
    [pc |-> "idle", i |-> 0, attempts |-> 0, timeout_emitted |-> FALSE,
     last_error |-> "none", result |-> "none"]

WaitOnly ==
    UNCHANGED <<system, search, probe, fanout, calc, ranking, monitor, task_ui,
                panel>>

\* the for loop's test: the next http.get, or return false
LoopTest ==
    /\ backend_wait.pc = "loop"
    /\ backend_wait' =
         IF backend_wait.i < maxRetries
         THEN [backend_wait EXCEPT !.pc = "request", !.attempts = @ + 1,
                                   !.timeout_emitted = FALSE]
         ELSE [backend_wait EXCEPT !.pc = "returned", !.result = "false"]
    /\ WaitOnly

\* the response callback: 200 resolves and the function returns true, any
\* other status rejects
HealthResponse(statusCode) ==
    /\ backend_wait.pc = "request"
    /\ backend_wait' =
         IF statusCode = 200
         THEN [backend_wait EXCEPT !.pc = "returned", !.result = "true"]
         ELSE [backend_wait EXCEPT !.pc = "delay", !.last_error = "status"]
    /\ WaitOnly

\* the request's 'error' event (connection refused or reset) rejects
RequestError ==
    /\ backend_wait.pc = "request"
    /\ backend_wait' = [backend_wait EXCEPT !.pc = "delay", !.last_error = "error"]
    /\ WaitOnly

\* req.setTimeout(1000): after 1000 ms without traffic the request emits
\* 'timeout'; there is no listener and the request is not destroyed
SocketTimeout ==
    /\ backend_wait.pc = "request"
    /\ ~backend_wait.timeout_emitted
    /\ backend_wait' = [backend_wait EXCEPT !.timeout_emitted = TRUE]
    /\ WaitOnly

\* the pause in the catch block ends; next iteration
DelayElapsed ==
    /\ backend_wait.pc = "delay"
    /\ backend_wait' = [backend_wait EXCEPT !.pc = "loop", !.i = @ + 1]
    /\ WaitOnly

---------------------------------------------------------------------------
(* Initial state: RAGTherapySystem after initialisation *)

InitSystem ==
    /\ arrived = [s \in Sessions |-> 0]
    /\ queue = [s \in Sessions |-> << >>]
    /\ inflight = [s \in Sessions |-> {}]
    /\ therapy_session = InitialSession
    /\ chat_history = << >>
    /\ response = [s \in Sessions |-> NoResponse]
    /\ retrieval_calls = [s \in Sessions |-> 0]
    /\ record_calls = [s \in Sessions |-> 0]
    /\ tasks = {}
    /\ vector_db = {}
    /\ save_failures = {}
    /\ halted = FALSE

\* nothing but the turns of chat() is under way
OthersIdle ==
    /\ fanout = NoFanout
    /\ calc = NoCalc
    /\ ranking = NoRanking
    /\ monitor = NoMonitor
    /\ task_ui = NoTaskUi
    /\ panel = NoPanel
    /\ backend_wait = NoWait

Init == InitSystem /\ search = NoSearch /\ probe = NoProbe /\ OthersIdle

---------------------------------------------------------------------------
(* Turns *)

\* A caller sends a turn with its session id; it waits in the session's queue.
Arrive(s, user_input, limit) ==
    /\ ~halted
    /\ TotalArrived < limit
    /\ Len(queue[s]) < MaxQueue
    /\ arrived' = [arrived EXCEPT ![s] = @ + 1]
    /\ queue' = [queue EXCEPT ![s] = Append(@, [id |-> arrived[s] + 1, input |-> user_input])]
    /\ UNCHANGED <<inflight, therapy_session, chat_history, response, retrieval_calls,
                   record_calls, tasks, vector_db, save_failures, halted, search, probe, others>>

\* chat() steps 1-3: exit-keyword check (session reset and closing answer),
\* otherwise protocol guidance and input classification, up to the first
\* await (the search).
Begin(s) ==
    /\ ~halted
    /\ queue[s] # << >>
    /\ SessionFree(s)
    /\ LET t == Head(queue[s])
           guidance == generate_protocol_guidance(therapy_session, t.input, chat_history)
       IN  /\ queue' = [queue EXCEPT ![s] = Tail(@)]
           /\ retrieval_calls' = [retrieval_calls EXCEPT ![s] = 0]
           /\ record_calls' = [record_calls EXCEPT ![s] = 0]
           /\ IF IsExit(t.input)
              THEN /\ therapy_session' = InitialSession
                   /\ chat_history' = ResetHistory(chat_history)
                   /\ response' = [response EXCEPT ![s] = ClosingResponse(t.id)]
                   /\ UNCHANGED inflight
              ELSE /\ therapy_session' = guidance.session_state
                   /\ inflight' = [inflight EXCEPT ![s] = @ \cup
                          {[id |-> t.id, input |-> t.input, pc |-> "search", chunks |-> {},
                            severity_level |-> guidance.severity_level,
                            protocol_type |-> guidance.protocol_type,
                            sfbt_question_type |-> guidance.sfbt_question_type,
                            hotline_in_prompt |-> guidance.hotline_in_prompt,
                            result |-> NoResponse]}]
                   /\ response' = [response EXCEPT ![s] = NoResponse]
                   /\ UNCHANGED chat_history
    /\ UNCHANGED <<arrived, tasks, vector_db, save_failures, halted, search, probe, others>>

\* chat() step 4: the search returns (embedding, vector DB query, distance
\* to similarity, emotion bonus).
SearchReturn(s, hits) ==
    /\ ~halted
    /\ \E t \in inflight[s] :
        /\ t.pc = "search"
        /\ inflight' = [inflight EXCEPT ![s] = (@ \ {t}) \cup
               {[t EXCEPT !.pc = "generate",
                          !.chunks = {FinalSimilarity(c) : c \in hits}]}]
        /\ retrieval_calls' = [retrieval_calls EXCEPT ![s] = @ + 1]
        /\ UNCHANGED <<arrived, queue, therapy_session, chat_history, response,
                       record_calls, tasks, vector_db, save_failures, halted, search, probe, others>>

\* Vector DB search failure: an empty list is returned
VectorQueryFails(s) == SearchReturn(s, {})

\* Embedding creation failure: the exception is raised (system stop)
EmbeddingFails(s) ==
    /\ ~halted
    /\ \E t \in inflight[s] :
        /\ t.pc = "search"
        /\ inflight' = [inflight EXCEPT ![s] = @ \ {t}]
        /\ response' = [response EXCEPT ![s] = RaisedError(t.id)]
        /\ retrieval_calls' = [retrieval_calls EXCEPT ![s] = @ + 1]
        /\ halted' = TRUE
        /\ UNCHANGED <<arrived, queue, therapy_session, chat_history,
                       record_calls, tasks, vector_db, save_failures, search, probe, others>>

ReturnTurnAfterSave(s, t, dialogue_turn, learn) ==
    /\ tasks' = IF learn THEN tasks \cup {[session |-> s, turn |-> t.id]} ELSE tasks
    /\ IF learn
       THEN /\ inflight' = [inflight EXCEPT ![s] = (@ \ {t}) \cup
                   {[t EXCEPT !.pc = "save", !.result = dialogue_turn]}]
            /\ UNCHANGED response
       ELSE /\ inflight' = [inflight EXCEPT ![s] = @ \ {t}]
            /\ response' = [response EXCEPT ![s] = dialogue_turn]

\* asyncio.create_task() starts the self-learning write in the background
\* and chat() returns its result
ReturnTurn(s, t, dialogue_turn, learn) ==
    /\ tasks' = IF learn THEN tasks \cup {[session |-> s, turn |-> t.id]} ELSE tasks
    /\ inflight' = [inflight EXCEPT ![s] = @ \ {t}]
    /\ response' = [response EXCEPT ![s] = dialogue_turn]

\* chat() steps 5-7: top similarity, threshold branch, answer generation
\* (the generation call returns or raises), self-learning trigger, history
\* update, return.
GenerateReturn(s, outcome) ==
    /\ ~halted
    /\ \E t \in inflight[s] :
        /\ t.pc = "generate"
        /\ LET best_similarity == TopSimilarity(t.chunks)
               mode   == IF UseLlmOnly(best_similarity) THEN "llm_only"
                         ELSE classify_input(t.input)
               learn  == TriggerSelfLearning(best_similarity)
               answer == GenerateAnswer(t, mode, outcome)
               dialogue_turn ==
                   [kind |-> "turn", turn |-> t.id, mode |-> mode,
                    similarity_score |-> best_similarity, retrieved |-> t.chunks,
                    answer |-> answer,
                    severity_level |-> t.severity_level,
                    protocol_type |-> t.protocol_type]
           IN  /\ chat_history' = AppendHistory(chat_history, [session |-> s, turn |-> t.id])
               /\ record_calls' = [record_calls EXCEPT ![s] = IF learn THEN @ + 1 ELSE @]
               /\ ReturnTurn(s, t, dialogue_turn, learn)
        /\ UNCHANGED <<arrived, queue, therapy_session, retrieval_calls,
                       vector_db, save_failures, halted, search, probe, others>>

\* The timeout of a provider call elapses: the call is handled as a failure
\* of that provider (embedding, vector DB query, generation).
ProviderTimeout(s) ==
    \E t \in inflight[s] :
        /\ CallTimesOut(t.pc)
        /\ \/ t.pc = "search" /\ EmbeddingFails(s)
           \/ t.pc = "search" /\ VectorQueryFails(s)
           \/ t.pc = "generate" /\ GenerateReturn(s, "api_error")

---------------------------------------------------------------------------
(* Self-learning write-back (background task) *)

\* turns of the task's session that wait for the task
Awaiters(k) == {t \in inflight[k.session] : t.pc = "save" /\ t.id = k.turn}

\* a finished task wakes whoever awaits it
Resume(k, seen) ==
    IF Awaiters(k) = {}
    THEN /\ response' = [response EXCEPT ![k.session] = seen]
         /\ UNCHANGED inflight
    ELSE /\ inflight' = [inflight EXCEPT ![k.session] = @ \ Awaiters(k)]
         /\ response' = [response EXCEPT ![k.session] =
                (CHOOSE t \in Awaiters(k) : TRUE).result]

SaveFailureSurfaces(dialogue_turn) == [dialogue_turn EXCEPT !.kind = "error"]

\* Self-learning save failure: the exception is ignored, the answer stands
SaveFailure(dialogue_turn) == dialogue_turn

\* the Q&A pair is embedded and stored (source = "self_learning")
SelfLearningSaved(k) ==
    /\ ~halted
    /\ k \in tasks
    /\ tasks' = tasks \ {k}
    /\ vector_db' = vector_db \cup {k}
    /\ Resume(k, response[k.session])
    /\ UNCHANGED <<arrived, queue, therapy_session, chat_history, retrieval_calls,
                   record_calls, save_failures, halted, search, probe, others>>

\* the embedding or the upsert raised
SelfLearningFailed(k) ==
    /\ ~halted
    /\ k \in tasks
    /\ tasks' = tasks \ {k}
    /\ save_failures' = save_failures \cup {k}
    /\ Resume(k, SaveFailure(response[k.session]))
    /\ UNCHANGED <<arrived, queue, therapy_session, chat_history, retrieval_calls,
                   record_calls, vector_db, halted, search, probe, others>>

---------------------------------------------------------------------------
(* Specifications *)

Next ==
    \/ \E s \in Sessions, u \in Utterances : Arrive(s, u, MaxTurns)
    \/ \E s \in Sessions : Begin(s)
    \/ \E s \in Sessions, hs \in SearchOutcomes : SearchReturn(s, hs)
    \/ \E s \in Sessions : EmbeddingFails(s)
    \/ \E s \in Sessions, o \in GenerationOutcomes : GenerateReturn(s, o)
    \/ \E k \in tasks : SelfLearningSaved(k)
    \/ \E k \in tasks : SelfLearningFailed(k)

Spec == Init /\ [][Next]_vars

\* One session, many turns: the bounded history at work.
NextHistory ==
    \/ \E u \in HistoryUtterances : Arrive("s1", u, MaxHistoryTurns)
    \/ Begin("s1")
    \/ SearchReturn("s1", {<<<<0, 1>>, 0>>})
    \/ GenerateReturn("s1", "follows_prompt")

SpecHistory == Init /\ [][NextHistory]_vars

\* The keyword-based guidance applied to one input.
InitKeywords ==
    /\ InitSystem
    /\ search = NoSearch
    /\ probe \in {[input |-> i, done |-> FALSE, protocol_type |-> "none",
                   severity_level |-> "none"] : i \in ProbeInputs}
    /\ OthersIdle

Guide ==
    /\ ~probe.done
    /\ LET guidance == generate_protocol_guidance(InitialSession, probe.input, << >>)
       IN  probe' = [input |-> probe.input, done |-> TRUE,
                     protocol_type |-> guidance.protocol_type,
                     severity_level |-> guidance.severity_level]
    /\ UNCHANGED <<arrived, queue, inflight, therapy_session, chat_history, response,
                   retrieval_calls, record_calls, tasks, vector_db, save_failures,
                   halted, search, others>>

NextKeywords == Guide

SpecKeywords == InitKeywords /\ [][NextKeywords]_vars

\* One run of the iterative search.
InitSearch ==
    /\ InitSystem
    /\ probe = NoProbe
    /\ search = [NoSearch EXCEPT !.pc = "retrieve"]
    /\ OthersIdle

NextSearch ==
    \/ \E hs \in PassOutcomes : RetrievePass(hs)
    \/ \E q \in QualityScores : EvaluateQuality(q)
    \/ ExpandQuery
    \/ FinishSearch

SpecSearch == InitSearch /\ [][NextSearch]_vars

\* One session whose provider calls may never respond: only the timeouts
\* and the start of a waiting turn are sure to happen.
NextLive ==
    \/ \E u \in HistoryUtterances : Arrive("s1", u, MaxLiveTurns)
    \/ Begin("s1")
    \/ \E hs \in SearchOutcomes : SearchReturn("s1", hs)
    \/ GenerateReturn("s1", "follows_prompt")
    \/ ProviderTimeout("s1")

SpecLive ==
    /\ Init
    /\ [][NextLive]_vars
    /\ WF_vars(Begin("s1"))
    /\ WF_vars(ProviderTimeout("s1"))


\* One multi-step search from its first query expansion on: the initial
\* search found some chunks and the quality needs improvement.
InitFanout ==
    /\ InitSystem /\ search = NoSearch /\ probe = NoProbe
    /\ fanout \in {[NoFanout EXCEPT !.pc = "expand", !.chunks = ids] : ids \in SUBSET ChunkIds}
    /\ calc = NoCalc /\ ranking = NoRanking /\ monitor = NoMonitor
    /\ task_ui = NoTaskUi /\ panel = NoPanel /\ backend_wait = NoWait

NextFanout ==
    \/ \E qs \in SUBSET ExpandedQueries : StartExpandedSearches(qs)
    \/ \E q \in ExpandedQueries, ids \in SUBSET ChunkIds : ExpandedSearchReturns(q, ids)
    \/ IterationTimeout
    \/ \E needs_improvement \in BOOLEAN : MergeAndReevaluate(needs_improvement)

SpecFanout == InitFanout /\ [][NextFanout]_vars

\* The scoring formulas applied to two distances and a match ratio.
InitScoring ==
    /\ InitSystem /\ search = NoSearch /\ probe = NoProbe
    /\ fanout = NoFanout
    /\ calc \in {[NoCalc EXCEPT !.pc = "input", !.d1 = d1, !.d2 = d2, !.match_ratio = r] :
                    d1 \in DistanceGrid, d2 \in DistanceGrid, r \in MatchPercents}
    /\ ranking = NoRanking /\ monitor = NoMonitor
    /\ task_ui = NoTaskUi /\ panel = NoPanel /\ backend_wait = NoWait

NextScoring == ApplyFormulas

SpecScoring == InitScoring /\ [][NextScoring]_vars

\* One search, from the vector DB query to the ordered result.
InitRanking ==
    /\ InitSystem /\ search = NoSearch /\ probe = NoProbe
    /\ fanout = NoFanout /\ calc = NoCalc
    /\ ranking = [NoRanking EXCEPT !.pc = "retrieve"]
    /\ monitor = NoMonitor
    /\ task_ui = NoTaskUi /\ panel = NoPanel /\ backend_wait = NoWait

NextRanking ==
    \/ \E list \in QueryResults : QueryVectorDb(list)
    \/ \E order \in Permutations(Len(ranking.chunks)) : Rerank(order)
    \/ ApplyEmotionBoost

SpecRanking == InitRanking /\ [][NextRanking]_vars

\* The activity monitor from setup on.
InitMonitor ==
    /\ InitSystem /\ search = NoSearch /\ probe = NoProbe
    /\ fanout = NoFanout /\ calc = NoCalc /\ ranking = NoRanking
    /\ monitor \in {setupActivityMonitor(mode) : mode \in Modes}
    /\ task_ui = NoTaskUi /\ panel = NoPanel /\ backend_wait = NoWait

NextMonitor ==
    \/ Tick
    \/ UserInput
    \/ CheckTimerFires
    \/ cleanup

SpecMonitor == InitMonitor /\ [][NextMonitor]_vars

\* The recommended-task UI under any sequence of user actions.
NextTaskUi ==
    \/ addTaskRecommendations
    \/ \E index \in RecommendedTasks : CardClick(index)
    \/ \E text \in TaskTexts : CustomTaskSave(text)
    \/ handleSaveSelectedTasks
    \/ \E i \in 1..MaxOpen : ConfirmClick(i)
    \/ \E i \in 1..MaxOpen : CancelClick(i)
    \/ \E i \in 1..MaxOpen, success \in BOOLEAN : SaveResponse(i, success)

SpecTaskUi == Init /\ [][NextTaskUi]_vars

\* The chat-style panels under any sequence of clicks, Enter keys and
\* responses.
NextPanel ==
    \/ \E p \in Panels, text \in MessageTexts : ClickSend(p, text)
    \/ \E p \in Panels, text \in MessageTexts : PressEnter(p, text)
    \/ \E p \in Panels : ResponseArrives(p)

SpecPanel == Init /\ [][NextPanel]_vars

\* One call of waitForBackend().  The loop's own steps and the timers are
\* sure to happen; whether and when the backend answers is not.
InitWait ==
    /\ InitSystem /\ search = NoSearch /\ probe = NoProbe
    /\ fanout = NoFanout /\ calc = NoCalc /\ ranking = NoRanking
    /\ monitor = NoMonitor /\ task_ui = NoTaskUi /\ panel = NoPanel
    /\ backend_wait = [NoWait EXCEPT !.pc = "loop"]

StatusCodes == {200, 404, 503}

NextWait ==
    \/ LoopTest
    \/ \E statusCode \in StatusCodes : HealthResponse(statusCode)
    \/ RequestError
    \/ SocketTimeout
    \/ DelayElapsed

SpecWait ==
    /\ InitWait
    /\ [][NextWait]_vars
    /\ WF_vars(LoopTest)
    /\ WF_vars(SocketTimeout)
    /\ WF_vars(DelayElapsed)

---------------------------------------------------------------------------
(* Properties *)

\* the id of the last turn of session s that has returned
LastFinished(s) == arrived[s] - Len(queue[s]) - Cardinality(inflight[s])

Min(a, b) == IF a <= b THEN a ELSE b

\* every self-learning write ever triggered: pending, stored or failed
AllRecords == tasks \cup vector_db \cup save_failures

C2_SelfLearningOnce ==
    \A s \in Sessions :
        /\ response[s].kind = "turn" =>
              /\ record_calls[s] = (IF response[s].mode = "llm_only" THEN 0 ELSE 1)
              /\ ([session |-> s, turn |-> response[s].turn] \in AllRecords)
                     <=> (response[s].mode # "llm_only")
        /\ response[s].kind = "closing" =>
              /\ record_calls[s] = 0
              /\ [session |-> s, turn |-> response[s].turn] \notin AllRecords

\* an augmented turn with its one write, an LLM-only turn with none
C2_Witness ==
    \E s1, s2 \in Sessions :
        /\ response[s1].kind = "turn" /\ response[s1].mode # "llm_only"
        /\ record_calls[s1] = 1
        /\ response[s2].kind = "turn" /\ response[s2].mode = "llm_only"
        /\ record_calls[s2] = 0

\* C3: whenever the severity of a turn is critical or high, the answer
\* returned for it contains the crisis-hotline reference text.
C3_HotlineInAnswer ==
    \A s \in Sessions :
        (response[s].kind = "turn" /\ response[s].severity_level \in {"critical", "high"})
            => response[s].answer.hotline

\* C4 (as claimed): an input containing a crisis keyword is assessed
\* critical.
C4_CrisisKeywordIsCritical ==
    (probe.done /\ Contains(probe.input, CrisisKeywords))
        => probe.severity_level = "critical"

\* C4 (amended): an input containing one of the four critical-tier
\* keywords is assessed critical, whatever other keywords it contains.
C4_CriticalKeywordIsCritical ==
    (probe.done /\ Contains(probe.input, {"jukgo sip", "jasal", "jahae", "kkeutnaego sip"}))
        => probe.severity_level = "critical"

\* a critical keyword together with a medium and a solution keyword
C4_Witness ==
    /\ probe.done
    /\ probe.input = {"jasal", "himdeul", "eotteoke"}
    /\ probe.severity_level = "critical"

\* C5: crisis keyword -> safety protocol (EAP), also with solution
\* keywords present; solution keyword and no crisis keyword -> SFBT;
\* otherwise integrated.
C5_ProtocolPrecedence ==
    probe.done =>
        LET crisis   == probe.input \cap {"jukgo sip", "jasal", "jahae", "kkeutnaego sip",
                                           "pogi", "jeolmang"} # {}
            solution == probe.input \cap {"eotteoke", "bangbeop", "haegyeol", "gaeseon",
                                           "naaji", "byeonhwa"} # {}
        IN  /\ crisis => probe.protocol_type = "eap"
            /\ (solution /\ ~crisis) => probe.protocol_type = "sfbt"
            /\ (~solution /\ ~crisis) => probe.protocol_type = "integrated"

\* a crisis keyword and a solution keyword in one input
C5_Witness ==
    /\ probe.done
    /\ probe.input = {"pogi", "bangbeop"}
    /\ probe.protocol_type = "eap"

\* C6: the step in which a closing turn returns makes no retrieval call and
\* leaves the session state at its initial values and the history empty.
C6_ClosingResets ==
    [][\A s \in Sessions :
          (response'[s].kind = "closing" /\ response'[s] # response[s]) =>
              /\ retrieval_calls'[s] = 0
              /\ therapy_session'.conversation_count = 0
              /\ therapy_session'.protocol_type = "integrated"
              /\ therapy_session'.severity_level = "low"
              /\ chat_history' = << >>]_vars

\* a closing turn that followed an augmented turn of the same session
C6_Witness ==
    \E s \in Sessions :
        /\ response[s].kind = "closing" /\ response[s].turn = 2
        /\ [session |-> s, turn |-> 1] \in AllRecords
        /\ chat_history = << >>

\* C7: the history holds at most 10 entries, and they are the most recent
\* turns of the session in arrival order (the oldest is evicted first).
C7_BoundedFifoHistory ==
    LET h == chat_history
    IN  /\ Len(h) <= 10
        /\ Len(h) = Min(10, therapy_session.conversation_count
                              - Cardinality(inflight["s1"]))
        /\ \A i \in 1..Len(h) :
               h[i] = [session |-> "s1", turn |-> LastFinished("s1") - Len(h) + i]

\* eleven turns were appended: turn 1 is gone, turns 2..11 remain
C7_Witness ==
    /\ Len(chat_history) = 10
    /\ chat_history[1].turn = 2
    /\ chat_history[10].turn = 11

C9_WriteDetached ==
    \A k \in tasks :
        /\ \A t \in inflight[k.session] : t.id # k.turn
        /\ k.turn <= LastFinished(k.session)

\* a later turn of the session has returned while the write is still pending
C9_Witness ==
    \E k \in tasks :
        /\ response[k.session].kind = "turn"
        /\ response[k.session].turn > k.turn

\* C10: a step in which a self-learning write finishes, successfully or
\* not, leaves every returned turn and every history as it was.
C10_WriteFailureSwallowed ==
    [][(\E k \in tasks : k \notin tasks')
          => (response' = response /\ chat_history' = chat_history)]_vars

\* the write of the turn just answered has failed
C10_Witness ==
    \E k \in save_failures :
        /\ response[k.session].kind = "turn"
        /\ response[k.session].turn = k.turn

\* C11: every turn returns a well-formed answer to its caller and never a
\* raw error, whichever provider call fails during the turn.
C11_AlwaysAnswer ==
    \A s \in Sessions :
        /\ response[s].kind # "error"
        /\ response[s].kind = "turn" => response[s].answer.source # "none"

\* ids of the turns of session "s1" inside chat()
InFlightIds == {t.id : t \in inflight["s1"]}

C13_BoundedExpansion ==
    LET n == Len(search.evaluations)
    IN  /\ search.iterations_used <= max_iterations
        /\ Len(search.passes) = search.iterations_used
        /\ n <= search.iterations_used /\ search.iterations_used <= n + 1
        /\ \A i \in 1..n :
               (search.evaluations[i].quality_score >= 70
                   \/ search.evaluations[i].avg_similarity >= 60)
               => (i = n /\ search.pc \in {"finish", "done"})

\* the second evaluation ends the search by its average similarity alone
C13_Witness ==
    /\ search.pc = "done"
    /\ search.iterations_used = 2
    /\ search.evaluations[2].quality_score < 70
    /\ search.evaluations[2].avg_similarity >= 60

\* C14: a pass that found chunks calls the re-ranker (once) exactly when the
\* best similarity before re-ranking is below 0.55.
C14_RerankBelowThreshold ==
    \A i \in 1..Len(search.passes) :
        LET pass == search.passes[i]
            sims == {(100 * c[1][2]) \div (c[1][1] + c[1][2]) : c \in pass.hits}
        IN  pass.hits # {} =>
                /\ pass.rerank_calls \in {0, 1}
                /\ (pass.rerank_calls = 1) <=> (\A x \in sims : x < 55)
                /\ (\E x \in sims : x >= 55) => pass.rerank_calls = 0

\* one pass with best similarity exactly 0.55 and no re-rank, another below
\* 0.55 with one
C14_Witness ==
    \E i, j \in 1..Len(search.passes) :
        /\ search.passes[i].hits = {<<<<9, 11>>, 0>>, <<<<69, 50>>, 100>>}
        /\ search.passes[i].rerank_calls = 0
        /\ search.passes[j].hits = {<<<<69, 50>>, 100>>}
        /\ search.passes[j].rerank_calls = 1

\* C15: conversation_count is incremented by each turn the protocol engine
\* processes, never decreases otherwise, and returns to 0 only in the step
\* of a closing turn.
C15_CountMonotone ==
    [][LET before  == therapy_session.conversation_count
           after   == therapy_session'.conversation_count
           guided  == \E s \in Sessions : \E t \in inflight'[s] : t \notin inflight[s] /\ t.pc = "search"
           closing == \E s \in Sessions :
                          response'[s].kind = "closing" /\ response'[s] # response[s]
       IN  /\ guided => after = before + 1
           /\ after < before => (closing /\ after = 0)
           /\ (~guided /\ ~closing) => after = before]_vars

\* two turns were counted, and after the reset of a closing turn one more
C15_Witness ==
    \E s \in Sessions :
        /\ response[s].kind = "closing" /\ response[s].turn = 2
        /\ therapy_session.conversation_count = 1
        /\ TotalArrived = 3

\* C16: a step of a turn of session a changes neither the session state nor
\* the history of another session b (one whose last turn was answered).
C16_SessionsIndependent ==
    [][\A a, b \in Sessions :
          (/\ a # b
           /\ response[b].kind = "turn"
           /\ inflight'[a] # inflight[a] \/ queue'[a] # queue[a])
          => (/\ SessionHistory(b)' = SessionHistory(b)
              /\ SessionState(b)' = SessionState(b))]_vars

\* C17: every similarity the search returns is within [0, 1].
C17_SimilarityInUnitRange ==
    \A x \in search.results : 0 <= x /\ x <= 100

\* C18: a turn whose search found nothing is answered, not failed: its top
\* similarity is 0, it takes the retrieval-augmented branch (with its
\* self-learning write) and it returns an answer.
C18_EmptyResultAnswered ==
    \A s \in Sessions :
        (response[s].kind = "turn" /\ response[s].retrieved = {}) =>
            /\ response[s].similarity_score = 0
            /\ response[s].mode \in {"adler", "counseling", "general"}
            /\ response[s].answer.source \in {"no_material_message", "llm", "default_message"}
            /\ record_calls[s] = 1

\* a turn with an empty result set answered with the "no related material"
\* message
C18_Witness ==
    \E s \in Sessions :
        /\ response[s].kind = "turn" /\ response[s].retrieved = {}
        /\ response[s].answer.source = "no_material_message"
        /\ [session |-> s, turn |-> response[s].turn] \in AllRecords

SeverityRank(level) ==
    IF level = "critical" THEN 3 ELSE IF level = "high" THEN 2
    ELSE IF level = "medium" THEN 1 ELSE 0

\* the keyword tier of a level matches the probed input
TierMatches(level) ==
    probe.input \cap
        (IF level = "critical" THEN {"jukgo sip", "jasal", "jahae", "kkeutnaego sip"}
         ELSE IF level = "high" THEN {"gyeondil su eops", "michigess", "hangye",
                                      "deo isang mot", "bulganeung"}
         ELSE IF level = "medium" THEN {"himdeul", "eoryeop", "goerop", "gotong",
                                        "seuteureseu"}
         ELSE {}) # {}

\* C20: the severity is the highest level whose keyword tier matches the
\* input, and low exactly when no tier matches.
C20_HighestMatchingTier ==
    probe.done =>
        LET levels == {"critical", "high", "medium"}
        IN  /\ probe.severity_level \in levels \cup {"low"}
            /\ probe.severity_level \in levels => TierMatches(probe.severity_level)
            /\ \A l \in levels :
                   TierMatches(l) => SeverityRank(probe.severity_level) >= SeverityRank(l)
            /\ (probe.severity_level = "low") <=> (\A l \in levels : ~TierMatches(l))

\* a high and a medium keyword in one input
C20_Witness ==
    /\ probe.done
    /\ probe.input = {"hangye", "himdeul"}
    /\ probe.severity_level = "high"


\* C21: in a query-expansion iteration the results of the parallel searches
\* are merged, and the quality re-evaluated, only when every search has
\* returned or the per-iteration timeout has elapsed: while searches are
\* running and the timeout has not elapsed, the chunks found so far are
\* those of the last completed iteration.
C21_MergeAfterAllBranches ==
    /\ fanout.merge_count > 0 =>
           (fanout.merge.pending = {} \/ fanout.merge.timed_out)
    /\ fanout.pc = "searching" => fanout.merge_count = fanout.iteration - 1
    /\ fanout.pc \in {"expand", "done"} => fanout.merge_count = fanout.iteration

\* a second iteration was merged after its timeout with one search returned
\* (its chunk merged) and one still running
C21_Witness ==
    /\ fanout.merge_count = 2
    /\ fanout.merge.timed_out
    /\ fanout.merge.complete = {1}
    /\ fanout.merge.pending = {2}
    /\ fanout.found[1] = {"c2"}
    /\ fanout.chunks = {"c1", "c2"}

C23_BoostInRange ==
    calc.pc = "done" => (0 <= calc.boost /\ calc.boost <= 20)

\* a full match gave the bonus 0.2
C23_Witness ==
    /\ calc.pc = "done"
    /\ calc.match_ratio = 100
    /\ calc.boost = 20

\* C24: a no-input period that lasts at least the idle threshold gets
\* exactly one onIdle call: never more than one call in a period, and a
\* period that reached the threshold has had its call when the next input
\* ends it.
C24_IdleOncePerPeriod ==
    /\ monitor.onIdle_calls <= 1
    /\ monitor.period_reached => monitor.period_idle_calls = 1

\* C25: while the user keeps giving input with every gap shorter than the
\* idle threshold, the activity session is not restarted, and once a
\* periodic check has run with the session at least the long-active
\* threshold old, onLongActive has been called for it.
C25_LongActiveAfterThreshold ==
    LET config == CONFIG[monitor.mode]
        lastCheckAt == monitor.nextCheckAt - config.checkIntervalMs
    IN  (/\ monitor.gaps_short
         /\ monitor.now - monitor.lastInputAt < config.idleThresholdMs)
        => /\ ~monitor.isIdle
           /\ monitor.sessionStartAt = monitor.session_began
           /\ lastCheckAt - monitor.session_began >= config.longActiveThresholdMs
                  => monitor.onLongActive_calls = 1

\* after an idle episode the user resumed at 3.5 s and kept giving input
\* with gaps below 3 s; onLongActive was called at the check of 14 s
C25_Witness ==
    /\ monitor.session_began = 3500
    /\ monitor.gaps_short
    /\ monitor.lastInputAt = 13500
    /\ monitor.now = 14000
    /\ monitor.onLongActive_calls = 1

\* C27: onLongActive is called at most once per activity session (a session
\* begins at setup or with the first input after an onIdle call).
C27_LongActiveOncePerSession ==
    monitor.onLongActive_calls <= 1

\* onLongActive was called at 10 s, and two later checks of the same
\* session did not call it again
C27_Witness ==
    /\ monitor.session_began = 0
    /\ monitor.onIdle_calls = 0
    /\ monitor.onLongActive_calls = 1
    /\ monitor.hasNotifiedLongActive
    /\ monitor.nextCheckAt = 13000

\* C26: the result list of a search holds the chunks found, ordered by
\* non-increasing boosted similarity (base similarity plus emotion bonus),
\* also when the re-ranker has reordered the chunks before.
C26_ResultsByBoostedSimilarity ==
    ranking.pc = "done" =>
        /\ Len(ranking.results) = Len(ranking.chunks)
        /\ Range(ranking.results) = Range(ranking.chunks)
        /\ \A i, j \in 1..Len(ranking.results) :
               i < j => FinalSimilarity(ranking.results[i]) >= FinalSimilarity(ranking.results[j])

\* the re-ranker put the chunk of similarity 0.5 before the two chunks of
\* similarity 0.42; the bonus of 0.2 brought one of these to the front
C26_Witness ==
    /\ ranking.pc = "done"
    /\ ranking.rerank_calls = 1
    /\ ranking.chunks = <<<<<<1, 1>>, 0>>, <<<<69, 50>>, 0>>, <<<<69, 50>>, 100>>>>
    /\ ranking.results = <<<<<<69, 50>>, 100>>, <<<<1, 1>>, 0>>, <<<<69, 50>>, 0>>>>

\* C28: the selected recommended tasks and the custom tasks together are
\* never more than 3.
C28_AtMostThreeTasks ==
    Cardinality(task_ui.selectedTasks) + Len(task_ui.customTasks) <= 3

\* two recommended tasks and one custom task are chosen (a fourth is refused)
C28_Witness ==
    /\ task_ui.selectedTasks = {0, 3}
    /\ task_ui.customTasks = <<"call client">>
    /\ task_ui.currentRecommendation

\* C29: in each chat-style panel at most one message request awaits its
\* response at any time: a send by click or Enter during an earlier send
\* is ignored.
C29_OneRequestInFlight ==
    \A p \in Panels : panel[p].awaiting <= 1

\* C30: every call of waitForBackend returns, after at most maxRetries
\* health checks: true when a check got status 200, false when maxRetries
\* checks have failed.
C30_Terminates ==
    /\ [](backend_wait.attempts <= maxRetries)
    /\ [](backend_wait.result = "false" => backend_wait.attempts = maxRetries)
    /\ <>(backend_wait.pc = "returned")

=============================================================================
